---- MODULE Spec2Model ----
(***************************************************************************)
(* Model of salary_predictor_app.py (taxi salary prediction, Streamlit).   *)
(*                                                                         *)
(* The script is re-executed from top to bottom on every user action.  The *)
(* state that survives a run is st.session_state (entries, show_editor,    *)
(* row_edit_idx), the record file entries.csv and the archive directory.   *)
(* Each action below is one script run in which one button was pressed.    *)
(*                                                                         *)
(* Units.  A time of day is a record [hour, minute]; a datetime built from *)
(* a record's own date is the number of minutes since that date's 00:00.   *)
(* A value that the code passes through round(x, 2) is kept as the integer *)
(* number of hundredths ("centihours"): round(x, 2) returns the double     *)
(* nearest to that decimal, which HoursToFloat reconstructs bit for bit.   *)
(***************************************************************************)
EXTENDS Integers, Sequences, FiniteSets, TLC

VARIABLES
    entries,        \* ss.entries: list of records (formatted strings + int)
    csv,            \* entries.csv: [exists, header, rows]
    archive,        \* ARCHIVE_DIR: the files, each [name, rows]
    row_edit_idx,   \* ss.row_edit_idx: None or a 0-based list index
    show_editor,    \* ss.show_editor
    today,          \* datetime.today().date()
    selected,       \* history: where the record whose edit button was clicked is now
    df,             \* aggregation frame: per row the two derived columns
    loc,            \* aggregation loop locals per row (out_time, in_time, total_hours)
    pay,            \* pay calculation results of the last script run
    period          \* last value returned by period_16to15

vars == <<entries, csv, archive, row_edit_idx, show_editor, today,
          selected, df, loc, pay, period>>

\* None in row_edit_idx (an index is >= 0), and the history value "removed"
None == -1
Gone == None - 1

(***************************************************************************)
(* Bounds of the model.                                                    *)
(***************************************************************************)
TimeStep == 5
MaxEntries == 2
RevStep == 25000
MaxRevK == 40

(***************************************************************************)
(* Dates and times: objects, and their formatted text.                     *)
(***************************************************************************)
Time(h, m) == [hour |-> h, minute |-> m]
Date(y, m, d) == [year |-> y, month |-> m, day |-> d]

\* strftime("%H:%M"): two zero-padded digit pairs
_fmt_time(v) == <<v.hour \div 10, v.hour % 10, v.minute \div 10, v.minute % 10>>

\* strftime("%Y-%m-%d"): year, then zero-padded month and day digits
_fmt_date(v) == <<v.year, v.month \div 10, v.month % 10, v.day \div 10, v.day % 10>>

\* strptime(..., "%H:%M") / pd.to_datetime(..., format="%H:%M").time()
ParseTime(s) == Time(s[1] * 10 + s[2], s[3] * 10 + s[4])

\* pd.to_datetime(text).date()
ParseDate(s) == Date(s[1], s[2] * 10 + s[3], s[4] * 10 + s[5])

\* minutes since 00:00 of the record's date of the datetime "date time"
MinuteOfDay(t) == t.hour * 60 + t.minute

DateLE(a, b) ==
    \/ a.year < b.year
    \/ a.year = b.year /\ a.month < b.month
    \/ a.year = b.year /\ a.month = b.month /\ a.day <= b.day

Entry(date_v, revenue_v, departure_v, return_v) ==
    [date      |-> _fmt_date(date_v),
     revenue   |-> revenue_v,
     departure |-> _fmt_time(departure_v),
     ret       |-> _fmt_time(return_v)]

(***************************************************************************)
(* Aggregation loop: per-shift metrics.                                    *)
(***************************************************************************)
Min(a, b) == IF a <= b THEN a ELSE b
Max(a, b) == IF a >= b THEN a ELSE b

\* datetime.hour of a datetime given in minutes since the date's 00:00
HourOf(current) == (current % 1440) \div 60

InNightWindowOffByOne(current) == HourOf(current) > 22 \/ HourOf(current) < 5

InNightWindow(current) == HourOf(current) >= 22 \/ HourOf(current) < 5

\* the while loop; night_h in minutes
RECURSIVE NightWalk(_, _, _)
NightWalk(current, in_time, night_h) ==
    IF current < in_time
    THEN NightWalk(current + 30, in_time,
                   IF InNightWindow(current)
                   THEN night_h + (Min(current + 30, in_time) - current)
                   ELSE night_h)
    ELSE night_h

\* round(minutes / 60.0, 2) in hundredths of an hour.  100 * m / 60 = 5m/3
\* is never within 1/6 of a half, so the nearest hundredth is unambiguous
\* and float error in m / 60.0 cannot change it.
Round2(minutes) == (10 * minutes + 3) \div 6

InTimeNoRollover(row) == MinuteOfDay(ParseTime(row.ret))

InTimeStrictRollover(row) ==
    LET out_time == MinuteOfDay(ParseTime(row.departure))
        in_time  == MinuteOfDay(ParseTime(row.ret))
    IN  IF in_time < out_time THEN in_time + 1440 ELSE in_time

OutTime(row) == MinuteOfDay(ParseTime(row.departure))

InTime(row) ==
    LET out_time == OutTime(row)
        in_time  == MinuteOfDay(ParseTime(row.ret))
    IN  IF in_time <= out_time THEN in_time + 1440 ELSE in_time

OverHours(total_hours) == Max(0, total_hours - 540)

ShiftLocals(row) ==
    [out_time    |-> OutTime(row),
     in_time     |-> InTime(row),
     total_hours |-> InTime(row) - OutTime(row)]

ShiftRow(row) ==
    [night |-> Round2(NightWalk(OutTime(row), InTime(row), 0)),
     over  |-> Round2(OverHours(InTime(row) - OutTime(row)))]

Aggregate(es) == [i \in 1..Len(es) |-> ShiftRow(es[i])]
AggregateLocals(es) == [i \in 1..Len(es) |-> ShiftLocals(es[i])]

(***************************************************************************)
(* IEEE 754 binary64 arithmetic on the values the pay calculation meets.   *)
(* A non-negative double below 2^20 that is zero or at least 2^-7 is a     *)
(* multiple of 2^-60: it is kept exactly as four base-2^20 limbs           *)
(* <<integer part, fraction limb 1, fraction limb 2, fraction limb 3>>.    *)
(* Every operation computes the exact result and rounds it to 53           *)
(* significant bits, ties to even, as the hardware does.                   *)
(***************************************************************************)
Base == 1024 * 1024

FZero == <<0, 0, 0, 0>>

\* carry propagation
Norm(x) ==
    LET t3 == x[3] + (x[4] \div Base)
        t2 == x[2] + (t3 \div Base)
        t1 == x[1] + (t2 \div Base)
    IN  <<t1, t2 % Base, t3 % Base, x[4] % Base>>

RECURSIVE BitLen(_)
BitLen(n) == IF n = 0 THEN 0 ELSE 1 + BitLen(n \div 2)

\* index (from 0 at the lowest fraction bit) of the highest set bit
TopBit(x) ==
    IF x[1] > 0 THEN 60 + BitLen(x[1]) - 1
    ELSE IF x[2] > 0 THEN 40 + BitLen(x[2]) - 1
    ELSE IF x[3] > 0 THEN 20 + BitLen(x[3]) - 1
    ELSE BitLen(x[4]) - 1

\* round the exact value x (plus a non-zero tail below 2^-60 when sticky)
\* to 53 significant bits, round-half-even
Round53(x, sticky) ==
    IF x = FZero THEN x
    ELSE
    LET cut == TopBit(x) - 52
    IN  IF cut <= 0 THEN x
        ELSE
        LET hi   == IF cut > 20 THEN x[3] % (2 ^ (cut - 20)) ELSE 0
            low  == IF cut > 20 THEN hi * Base + x[4] ELSE x[4] % (2 ^ cut)
            half == 2 ^ (cut - 1)
            odd  == IF cut < 20 THEN (x[4] \div (2 ^ cut)) % 2 = 1
                    ELSE (x[3] \div (2 ^ (cut - 20))) % 2 = 1
            up   == low > half \/ (low = half /\ (sticky \/ odd))
            kept == IF cut > 20 THEN <<x[1], x[2], x[3] - hi, 0>>
                    ELSE <<x[1], x[2], x[3], x[4] - low>>
            inc  == IF ~up THEN FZero
                    ELSE IF cut < 20 THEN <<0, 0, 0, 2 ^ cut>>
                    ELSE <<0, 0, 2 ^ (cut - 20), 0>>
        IN  Norm(<<kept[1] + inc[1], kept[2] + inc[2],
                   kept[3] + inc[3], kept[4] + inc[4]>>)

\* the double nearest to the rational n / d  (n < 2^20, d <= 1000)
FDiv(n, d) ==
    LET q1 == n \div d
        r1 == n % d
        q2 == (r1 * Base) \div d
        r2 == (r1 * Base) % d
        q3 == (r2 * Base) \div d
        r3 == (r2 * Base) % d
        q4 == (r3 * Base) \div d
        r4 == (r3 * Base) % d
    IN  Round53(<<q1, q2, q3, q4>>, r4 # 0)

\* x + y on doubles
FAdd(x, y) == Round53(Norm(<<x[1] + y[1], x[2] + y[2], x[3] + y[3], x[4] + y[4]>>), FALSE)

\* exact x * k for an integer 0 <= k <= 1024
MulSmall(x, k) == Norm(<<x[1] * k, x[2] * k, x[3] * k, x[4] * k>>)

\* x * n on doubles, n an integer below 2^20 (exactly representable)
FMulInt(x, n) ==
    LET a == MulSmall(MulSmall(x, n \div 1024), 1024)
        b == MulSmall(x, n % 1024)
    IN  Round53(Norm(<<a[1] + b[1], a[2] + b[2], a[3] + b[3], a[4] + b[4]>>), FALSE)

\* int(x): truncation toward zero of a non-negative double
FInt(x) == x[1]

\* the double a 2-decimal round() result denotes, from its hundredths
HoursToFloat(c) == FDiv(c, 100)

\* df[column].sum() of a float64 column: left-to-right from 0.0
RECURSIVE FSumFrom(_, _, _)
FSumFrom(col, i, acc) ==
    IF i > Len(col) THEN acc
    ELSE FSumFrom(col, i + 1, FAdd(acc, HoursToFloat(col[i])))

FSum(col) == FSumFrom(col, 1, FZero)

RECURSIVE IntSum(_)
IntSum(col) == IF col = <<>> THEN 0 ELSE Head(col) + IntSum(Tail(col))

(***************************************************************************)
(* Pay calculation.                                                        *)
(***************************************************************************)
rate_table ==
    (900000 :> 508712) @@ (850000 :> 471015) @@ (800000 :> 438359) @@
    (750000 :> 404286) @@ (700000 :> 369718) @@ (650000 :> 329678) @@
    (600000 :> 288907) @@ (550000 :> 252054) @@ (500000 :> 211921) @@
    (450000 :> 170255) @@ (400000 :> 122505)

SetMax(S) == CHOOSE x \in S : \A y \in S : y <= x
SetMin(S) == CHOOSE x \in S : \A y \in S : x <= y

BasePayStrict(total_sales, table) ==
    LET met == {thr \in DOMAIN table : total_sales > thr}
    IN  IF met = {} THEN 0 ELSE table[SetMax(met)]

BasePayLowestMet(total_sales, table) ==
    LET met == {thr \in DOMAIN table : total_sales >= thr}
    IN  IF met = {} THEN 0 ELSE table[SetMin(met)]

\* for thr, amt in sorted(items, reverse=True): first thr with total >= thr
BasePay(total_sales, table) ==
    LET met == {thr \in DOMAIN table : total_sales >= thr}
    IN  IF met = {} THEN 0 ELSE table[SetMax(met)]

\* Policy B of the specification (monotonic ratchet): start from the lowest
\* tier's amount (0 without tiers), walk the tiers ascending, take each
\* amount while its threshold is met, stop at the first threshold not met
RECURSIVE Ratchet(_, _, _, _)
Ratchet(total, table, left, amount) ==
    IF left = {} THEN amount
    ELSE LET thr == SetMin(left)
         IN  IF total >= thr
             THEN Ratchet(total, table, left \ {thr}, table[thr])
             ELSE amount

PolicyB(total, table) ==
    IF DOMAIN table = {} THEN 0
    ELSE Ratchet(total, table, DOMAIN table, table[SetMin(DOMAIN table)])

Column(frame, name) == [i \in 1..Len(frame) |-> frame[i][name]]

PayCalc(es, frame) ==
    LET total_sales == IF es = <<>> THEN 0 ELSE IntSum(Column(es, "revenue"))
        night_hours == IF frame = <<>> THEN FZero ELSE FSum(Column(frame, "night"))
        over_hours  == IF frame = <<>> THEN FZero ELSE FSum(Column(frame, "over"))
        base_pay    == BasePay(total_sales, rate_table)
        night_pay   == FInt(FMulInt(night_hours, 600))
        over_pay    == FInt(FMulInt(over_hours, 250))
        total_pay   == base_pay + night_pay + over_pay
        deduction   == FInt(FMulInt(FDiv(115, 1000), total_pay))
    IN  [computed    |-> TRUE,
         total_sales |-> total_sales,
         night_hours |-> night_hours,
         over_hours  |-> over_hours,
         base_pay    |-> base_pay,
         night_pay   |-> night_pay,
         over_pay    |-> over_pay,
         total_pay   |-> total_pay,
         deduction   |-> deduction,
         take_home   |-> total_pay - deduction]

NoPay == [computed |-> FALSE]

(***************************************************************************)
(* One pass of the aggregation and pay sections over ss.entries.           *)
(***************************************************************************)
Recompute ==
    /\ ~pay.computed
    /\ df' = Aggregate(entries)
    /\ loc' = AggregateLocals(entries)
    /\ pay' = PayCalc(entries, df')
    /\ UNCHANGED <<entries, csv, archive, row_edit_idx, show_editor, today,
                   selected, period>>

NoPeriod == [computed |-> FALSE]

NoFile == [exists |-> FALSE, header |-> FALSE, rows |-> <<>>]

\* the variables a specification of the pure sections does not use
Idle ==
    /\ csv = NoFile
    /\ archive = {}
    /\ row_edit_idx = None
    /\ show_editor = FALSE
    /\ today = Date(2024, 6, 1)
    /\ selected = None
    /\ df = <<>>
    /\ loc = <<>>
    /\ pay = NoPay
    /\ period = NoPeriod

GoldenEntry == Entry(Date(2024, 6, 1), 50000, Time(17, 0), Time(3, 30))

BoundaryTimes == {Time(21, 45), Time(22, 15), Time(4, 45), Time(5, 15)}

ShiftTimes ==
    {Time(h, m) : h \in 0..23, m \in {n \in 0..59 : n % TimeStep = 0}}
        \cup BoundaryTimes \cup {Time(17, 0), Time(3, 30)}

InitShift ==
    /\ \E t1 \in ShiftTimes, t2 \in ShiftTimes :
          entries = <<Entry(Date(2024, 6, 1), 50000, t1, t2)>>
    /\ Idle

NextShift == Recompute

SpecShift == InitShift /\ [][NextShift]_vars

Revenues ==
    {k * RevStep : k \in 0..MaxRevK}
        \cup {thr + d : thr \in DOMAIN rate_table, d \in {-1, 0, 1}}

InitTier ==
    /\ \E r1 \in Revenues, r2 \in Revenues \cup {-1} :
          entries = IF r2 = -1
                    THEN <<Entry(Date(2024, 6, 1), r1, Time(17, 0), Time(3, 30))>>
                    ELSE <<Entry(Date(2024, 6, 1), r1, Time(17, 0), Time(3, 30)),
                           Entry(Date(2024, 6, 2), r2, Time(9, 0), Time(18, 0))>>
    /\ Idle

NextTier == Recompute

SpecTier == InitTier /\ [][NextTier]_vars

PayShifts ==
    {<<Time(17, 0), Time(3, 30)>>, <<Time(22, 0), Time(22, 34)>>,
     <<Time(22, 0), Time(22, 10)>>, <<Time(22, 0), Time(23, 10)>>,
     <<Time(8, 0), Time(8, 0)>>, <<Time(9, 0), Time(18, 10)>>,
     <<Time(9, 0), Time(19, 10)>>, <<Time(9, 0), Time(17, 0)>>}

PayRecords ==
    {Entry(Date(2024, 6, 1), r, s[1], s[2]) : r \in {0, 50000, 450000}, s \in PayShifts}

InitPay ==
    /\ entries \in {<<>>} \cup {<<a>> : a \in PayRecords}
                          \cup {<<a, b>> : a \in PayRecords, b \in PayRecords}
    /\ Idle

NextPay == Recompute

SpecPay == InitPay /\ [][NextPay]_vars

(***************************************************************************)
(* C1.  The end instant is date + return time, moved forward by 24 hours   *)
(* exactly when it is not strictly after the start instant: a return time  *)
(* of day after the departure time of day gives a same-day shift of        *)
(* return - departure, otherwise the shift spans midnight and lasts        *)
(* (24:00 - departure) + return; the total is in (0, 24] hours.            *)
(***************************************************************************)
DepartureMinute(e) == (e.departure[1] * 10 + e.departure[2]) * 60
                          + e.departure[3] * 10 + e.departure[4]
ReturnMinute(e) == (e.ret[1] * 10 + e.ret[2]) * 60 + e.ret[3] * 10 + e.ret[4]

C1_OvernightRollover ==
    \A i \in DOMAIN loc :
        LET dep == DepartureMinute(entries[i])
            back == ReturnMinute(entries[i])
        IN  /\ loc[i].out_time = dep
            /\ loc[i].in_time = (IF back > dep THEN back ELSE back + 1440)
            /\ back > dep => loc[i].total_hours = back - dep
            /\ back <= dep => loc[i].total_hours = (1440 - dep) + back
            /\ loc[i].total_hours > 0
            /\ loc[i].total_hours <= 1440

C1_Witness ==
    /\ pay.computed
    /\ \E i \in DOMAIN loc :
          /\ DepartureMinute(entries[i]) = ReturnMinute(entries[i])
          /\ loc[i].total_hours = 1440

(***************************************************************************)
(* C2.  Night hours are accrued by tick sampling: every 30-minute tick     *)
(* t = start, start + 30, ... below end whose wall-clock hour is >= 22 or  *)
(* < 5 adds min(30 min, end - t), every other tick adds nothing.  A shift  *)
(* 21:45 -> 22:15 gets 0 night hours, a shift 04:45 -> 05:15 gets 0.5, and *)
(* night hours never exceed total hours.                                   *)
(***************************************************************************)
RECURSIVE TickSum(_, _, _)
TickSum(start, end, k) ==
    IF k < 0 THEN 0
    ELSE LET t == start + 30 * k
             h == (t % 1440) \div 60
             part == IF t < end /\ (h >= 22 \/ h < 5)
                     THEN (IF end - t < 30 THEN end - t ELSE 30)
                     ELSE 0
         IN  part + TickSum(start, end, k - 1)

C2_TickSampling ==
    \A i \in DOMAIN df :
        LET dep == DepartureMinute(entries[i])
            back == ReturnMinute(entries[i])
            end == IF back > dep THEN back ELSE back + 1440
            mins == TickSum(dep, end, 47)
        IN  /\ df[i].night = (10 * mins + 3) \div 6
            /\ (dep = 21 * 60 + 45 /\ back = 22 * 60 + 15) => df[i].night = 0
            /\ (dep = 4 * 60 + 45 /\ back = 5 * 60 + 15) => df[i].night = 50
            /\ df[i].night <= (10 * (end - dep) + 3) \div 6

C2_Witness ==
    /\ pay.computed
    /\ entries[1].departure = <<2, 1, 4, 5>>
    /\ entries[1].ret = <<2, 2, 1, 5>>
    /\ df[1].night = 0

(***************************************************************************)
(* C3.  As claimed: the record {2024-06-01, 50000, 17:00, 03:30} has       *)
(* total hours 10.5, overtime hours 1.5 and night hours 5.0.               *)
(***************************************************************************)
C3_GoldenAsClaimed ==
    (pay.computed /\ entries = <<GoldenEntry>>) =>
        /\ loc[1].total_hours = 630
        /\ df[1].over = 150
        /\ df[1].night = 500

(***************************************************************************)
(* C3 amended.  The record {2024-06-01, 50000, 17:00, 03:30} has total     *)
(* hours 10.5, overtime hours 1.5 and night hours 5.5 (the eleven ticks    *)
(* 22:00, 22:30, ..., 03:00).                                              *)
(***************************************************************************)
C3_Golden ==
    (pay.computed /\ entries = <<GoldenEntry>>) =>
        /\ loc[1].total_hours = 630
        /\ df[1].over = 150
        /\ df[1].night = 550

C3_Witness == pay.computed /\ entries = <<GoldenEntry>> /\ df[1].night = 550

(***************************************************************************)
(* C4.  Base pay is the amount of the tier with the largest threshold      *)
(* <= total revenue, and 0 when no threshold is met or the table is empty. *)
(* 900000 -> 508712, 925000 -> 508712, below 400000 -> 0; base pay is      *)
(* non-decreasing in total revenue.                                        *)
(***************************************************************************)
EmptyTable == [thr \in {} |-> 0]

C4_HighestQualifyingTier ==
    pay.computed =>
        LET total == pay.total_sales
        IN  /\ \/ /\ \A thr \in DOMAIN rate_table : thr > total
                  /\ pay.base_pay = 0
               \/ \E thr \in DOMAIN rate_table :
                     /\ thr <= total
                     /\ \A other \in DOMAIN rate_table : other <= total => other <= thr
                     /\ pay.base_pay = rate_table[thr]
            /\ total = 900000 => pay.base_pay = 508712
            /\ total = 925000 => pay.base_pay = 508712
            /\ total < 400000 => pay.base_pay = 0
            /\ BasePay(total, EmptyTable) = 0
            /\ \A r \in Revenues : r <= total => BasePay(r, rate_table) <= pay.base_pay

C4_Witness == pay.computed /\ pay.total_sales = 925000 /\ pay.base_pay = 508712

(***************************************************************************)
(* C6.  As claimed: on the reference table Policy A (the code) and         *)
(* Policy B (the ratchet) give the same base pay for every non-negative    *)
(* total revenue.                                                          *)
(***************************************************************************)
C6_PoliciesAgreeEverywhere ==
    pay.computed => pay.base_pay = PolicyB(pay.total_sales, rate_table)

(***************************************************************************)
(* C6 amended.  On the reference table Policy A and Policy B give the same *)
(* base pay for every total revenue that meets the lowest threshold        *)
(* (400000); below it Policy A pays 0 and Policy B the lowest tier's       *)
(* amount.                                                                 *)
(***************************************************************************)
C6_PoliciesAgreeFromLowestTier ==
    pay.computed =>
        IF pay.total_sales >= 400000
        THEN pay.base_pay = PolicyB(pay.total_sales, rate_table)
        ELSE pay.base_pay = 0 /\ PolicyB(pay.total_sales, rate_table) = 122505

C6_Witness ==
    /\ pay.computed
    /\ pay.total_sales = 650001
    /\ pay.base_pay = 329678
    /\ PolicyB(pay.total_sales, rate_table) = 329678

(***************************************************************************)
(* C5.  As claimed: night premium = floor(total night hours x 600),        *)
(* overtime premium = floor(total overtime hours x 250), gross = base +    *)
(* premiums, deduction = floor(gross x 0.115), take-home = gross -         *)
(* deduction >= 0, each floor taken of the product of the summed 2-decimal *)
(* hours and the rate; for no records every field is 0.                    *)
(***************************************************************************)
C5_ExactFloors ==
    pay.computed =>
        LET night == IntSum(Column(df, "night"))
            over  == IntSum(Column(df, "over"))
        IN  /\ pay.night_pay = (night * 600) \div 100
            /\ pay.over_pay = (over * 250) \div 100
            /\ pay.total_pay = pay.base_pay + pay.night_pay + pay.over_pay
            /\ pay.deduction = (pay.total_pay * 115) \div 1000
            /\ pay.take_home = pay.total_pay - pay.deduction
            /\ pay.take_home >= 0
            /\ entries = <<>> =>
                  /\ pay.total_sales = 0 /\ pay.base_pay = 0
                  /\ pay.night_hours = FZero /\ pay.over_hours = FZero
                  /\ pay.night_pay = 0 /\ pay.over_pay = 0
                  /\ pay.total_pay = 0 /\ pay.deduction = 0 /\ pay.take_home = 0

(***************************************************************************)
(* period_16to15.                                                          *)
(***************************************************************************)
\* the first day of the month k months away from year-month (y, m)
ShiftMonth(y, m, k) ==
    LET idx == y * 12 + (m - 1) + k
    IN  Date(idx \div 12, (idx % 12) + 1, 1)

\* base + n * pd.offsets.MonthBegin(): n is first rolled toward zero when a
\* negative (or zero) n meets a date past the 1st (roll_convention), then
\* the date moves n months and lands on the 1st
MonthBegin(base, n) ==
    LET rolled == IF n <= 0 /\ base.day > 1 THEN n + 1 ELSE n
    IN  ShiftMonth(base.year, base.month, rolled)

period_16to15(base) ==
    IF base.day >= 16
    THEN LET end_m == MonthBegin(base, 1)
         IN  [computed |-> TRUE,
              start |-> Date(base.year, base.month, 16),
              end   |-> Date(end_m.year, end_m.month, 15)]
    ELSE LET prev == MonthBegin(base, -1)
         IN  [computed |-> TRUE,
              start |-> Date(prev.year, prev.month, 16),
              end   |-> Date(base.year, base.month, 15)]

\* f"entries_{start_d.isoformat()}_{end_d.isoformat()}.csv"
archive_filename(start_d, end_d) == <<_fmt_date(start_d), _fmt_date(end_d)>>

IsLeap(y) == (y % 4 = 0 /\ y % 100 # 0) \/ y % 400 = 0

DaysInMonth(y, m) ==
    IF m = 2 THEN (IF IsLeap(y) THEN 29 ELSE 28)
    ELSE IF m \in {4, 6, 9, 11} THEN 30 ELSE 31

CalendarDates ==
    {Date(y, m, d) : y \in 2023..2024, m \in 1..12, d \in 1..31} \
        {dt \in {Date(y, m, d) : y \in 2023..2024, m \in 1..12, d \in 29..31} :
            dt.day > DaysInMonth(dt.year, dt.month)}

ComputePeriod ==
    /\ ~period.computed
    /\ period' = period_16to15(today)
    /\ UNCHANGED <<entries, csv, archive, row_edit_idx, show_editor, today,
                   selected, df, loc, pay>>

InitPeriod ==
    /\ today \in CalendarDates
    /\ entries = <<>>
    /\ csv = NoFile
    /\ archive = {}
    /\ row_edit_idx = None
    /\ show_editor = FALSE
    /\ selected = None
    /\ df = <<>>
    /\ loc = <<>>
    /\ pay = NoPay
    /\ period = NoPeriod

NextPeriod == ComputePeriod

SpecPeriod == InitPeriod /\ [][NextPeriod]_vars

(***************************************************************************)
(* C7.  As claimed: for every date today, period_16to15(today) is          *)
(* (start, end) with start a 16th, end the 15th of the month right after   *)
(* start's month, and start <= today <= end: from the 16th on the period   *)
(* starts on the 16th of today's month, before the 16th it starts on the   *)
(* 16th of the previous month and ends on the 15th of today's month.       *)
(***************************************************************************)
MonthIndex(dt) == dt.year * 12 + dt.month

C7_PeriodContainsToday ==
    period.computed =>
        /\ period.start.day = 16
        /\ period.end.day = 15
        /\ MonthIndex(period.end) = MonthIndex(period.start) + 1
        /\ DateLE(period.start, today)
        /\ DateLE(today, period.end)
        /\ today.day >= 16 => MonthIndex(period.start) = MonthIndex(today)
        /\ today.day < 16 =>
              /\ MonthIndex(period.start) = MonthIndex(today) - 1
              /\ MonthIndex(period.end) = MonthIndex(today)

(***************************************************************************)
(* Persistence: entries.csv.                                               *)
(***************************************************************************)
\* the decimal text of a non-negative integer, as to_csv writes it
RECURSIVE Digits(_)
Digits(n) == IF n < 10 THEN <<n>> ELSE Append(Digits(n \div 10), n % 10)

\* astype(int) on that text
RECURSIVE FromDigits(_)
FromDigits(t) ==
    IF Len(t) = 1 THEN t[1]
    ELSE FromDigits(SubSeq(t, 1, Len(t) - 1)) * 10 + t[Len(t)]

\* one line of the file, in COLUMNS order
CsvRow(e) == <<e.date, Digits(e.revenue), e.departure, e.ret>>

CsvRows(es) == [i \in 1..Len(es) |-> CsvRow(es[i])]

save_entriesAppending(es) ==
    [exists |-> TRUE, header |-> TRUE, rows |-> csv.rows \o CsvRows(es)]

\* pd.DataFrame(entries)[COLUMNS].to_csv(CSV_PATH): the whole file is
\* rewritten; an empty frame has no columns and leaves no header line
save_entries(es) ==
    [exists |-> TRUE, header |-> es # <<>>, rows |-> CsvRows(es)]

\* a file without a header line makes read_csv raise, which is caught
load_entries(file) ==
    IF ~file.exists \/ ~file.header THEN <<>>
    ELSE [i \in 1..Len(file.rows) |->
            [date      |-> file.rows[i][1],
             revenue   |-> FromDigits(file.rows[i][2]),
             departure |-> file.rows[i][3],
             ret       |-> file.rows[i][4]]]

(***************************************************************************)
(* The session: one action per button.                                     *)
(***************************************************************************)
\* the dates on which the script runs: inside the period 06-16..07-15, on a
\* day-of-month below 16, and inside the period 07-16..08-15
UIDays == {Date(2024, 6, 25), Date(2024, 7, 10), Date(2024, 7, 16)}

\* the values the forms and the grid are given
UIRecords ==
    {Entry(Date(2024, 6, 20), 50000, Time(17, 0), Time(3, 30)),
     Entry(Date(2024, 6, 20), 60000, Time(17, 0), Time(3, 30)),
     Entry(Date(2024, 7, 20), 50000, Time(9, 0), Time(18, 0))}

\* 0-based list.pop(idx)
Pop(es, idx) == SubSeq(es, 1, idx) \o SubSeq(es, idx + 2, Len(es))

\* the row edit form is rendered
FormShown ==
    /\ entries # <<>>
    /\ row_edit_idx # None
    /\ 0 <= row_edit_idx
    /\ row_edit_idx < Len(entries)

\* if submitted: append and save
Add ==
    /\ Len(entries) < MaxEntries
    /\ \E e \in UIRecords :
          /\ entries' = Append(entries, e)
          /\ csv' = save_entries(entries')
    /\ UNCHANGED <<archive, row_edit_idx, show_editor, today, selected,
                   df, loc, pay, period>>

\* button edit_{idx}
ClickEdit ==
    /\ entries # <<>>
    /\ \E idx \in 0..(Len(entries) - 1) :
          /\ row_edit_idx' = idx
          /\ selected' = idx
    /\ UNCHANGED <<entries, csv, archive, show_editor, today, df, loc, pay, period>>

\* button del_{idx}
Delete ==
    /\ entries # <<>>
    /\ \E idx \in 0..(Len(entries) - 1) :
          /\ entries' = Pop(entries, idx)
          /\ csv' = save_entries(entries')
          /\ selected' = IF selected \in {None, Gone} THEN selected
                         ELSE IF idx < selected THEN selected - 1
                         ELSE IF idx = selected THEN Gone
                         ELSE selected
    /\ UNCHANGED <<archive, row_edit_idx, show_editor, today, df, loc, pay, period>>

\* row edit form, save button
SaveEdit ==
    /\ FormShown
    /\ \E e \in UIRecords :
          /\ entries' = [entries EXCEPT ![row_edit_idx + 1] = e]
          /\ csv' = save_entries(entries')
    /\ row_edit_idx' = None
    /\ selected' = None
    /\ UNCHANGED <<archive, show_editor, today, df, loc, pay, period>>

\* row edit form, cancel button
CancelEdit ==
    /\ FormShown
    /\ row_edit_idx' = None
    /\ selected' = None
    /\ UNCHANGED <<entries, csv, archive, show_editor, today, df, loc, pay, period>>

OpenGrid ==
    /\ entries # <<>>
    /\ ~show_editor
    /\ show_editor' = TRUE
    /\ UNCHANGED <<entries, csv, archive, row_edit_idx, today, selected,
                   df, loc, pay, period>>

\* grid, save button: every row is rebuilt from the edited frame (num_rows fixed)
GridSave ==
    /\ entries # <<>>
    /\ show_editor
    /\ \E edited \in [1..Len(entries) -> UIRecords] :
          /\ entries' = edited
          /\ csv' = save_entries(entries')
    /\ show_editor' = FALSE
    /\ UNCHANGED <<archive, row_edit_idx, today, selected, df, loc, pay, period>>

GridCancel ==
    /\ entries # <<>>
    /\ show_editor
    /\ show_editor' = FALSE
    /\ UNCHANGED <<entries, csv, archive, row_edit_idx, today, selected,
                   df, loc, pay, period>>

\* mask: p_start <= date <= p_end
InMask(e, p) == DateLE(p.start, ParseDate(e.date)) /\ DateLE(ParseDate(e.date), p.end)

\* df_entries.loc[~mask, COLUMNS]
Remain(es, p) ==
    LET NotMasked(e) == ~InMask(e, p)
    IN  SelectSeq(es, NotMasked)

\* df_entries.loc[mask, COLUMNS]
ToSave(es, p) ==
    LET Masked(e) == InMask(e, p)
    IN  SelectSeq(es, Masked)

\* to_csv(out_path): creates the file or replaces its content
WriteArchive(files, name, rows) ==
    {f \in files : f.name # name} \cup {[name |-> name, rows |-> rows]}

\* button "save this period and clear"
DoClose ==
    LET p == period_16to15(today)
        df_to_save == ToSave(entries, p)
    IN  IF df_to_save = <<>>
        THEN UNCHANGED vars
        ELSE /\ archive' = WriteArchive(archive, archive_filename(p.start, p.end),
                                        CsvRows(df_to_save))
             /\ entries' = Remain(entries, p)
             /\ csv' = save_entries(entries')
             /\ selected' = IF selected \in {None, Gone} THEN selected
                            ELSE IF InMask(entries[selected + 1], p) THEN Gone
                            ELSE Len(Remain(SubSeq(entries, 1, selected), p))
             /\ UNCHANGED <<row_edit_idx, show_editor, today, df, loc, pay, period>>

\* a new browser session: session_state is rebuilt from the file
NewSession ==
    /\ entries' = load_entries(csv)
    /\ show_editor' = FALSE
    /\ row_edit_idx' = None
    /\ selected' = None
    /\ UNCHANGED <<csv, archive, today, df, loc, pay, period>>

\* the calendar moves on between two script runs
DayPasses ==
    /\ \E d \in UIDays : ~DateLE(d, today) /\ today' = d
    /\ UNCHANGED <<entries, csv, archive, row_edit_idx, show_editor, selected,
                   df, loc, pay, period>>

\* session start: entries.csv is absent or was left by an earlier session
Init ==
    /\ csv \in {NoFile} \cup
                {[exists |-> TRUE, header |-> TRUE, rows |-> CsvRows(<<e>>)] :
                    e \in UIRecords}
    /\ entries = load_entries(csv)
    /\ archive = {}
    /\ row_edit_idx = None
    /\ show_editor = FALSE
    /\ today = Date(2024, 6, 25)
    /\ selected = None
    /\ df = <<>>
    /\ loc = <<>>
    /\ pay = NoPay
    /\ period = NoPeriod

Next ==
    \/ Add
    \/ ClickEdit
    \/ Delete
    \/ SaveEdit
    \/ CancelEdit
    \/ OpenGrid
    \/ GridSave
    \/ GridCancel
    \/ DoClose
    \/ NewSession
    \/ DayPasses

Spec == Init /\ [][Next]_vars

(***************************************************************************)
(* C8.  As claimed: an archive file is never changed after its creation:   *)
(* once a close has written the archive of a pay period, no later add,     *)
(* edit, delete or close changes that file's rows.                         *)
(***************************************************************************)
C8_ArchiveNeverMutated ==
    [][\A f \in archive : f \in archive']_vars

(***************************************************************************)
(* C9.  The record file always holds exactly the in-memory record list     *)
(* (same records, same order), every save being a full overwrite, and a    *)
(* period close removes from both exactly the records dated within         *)
(* [p_start, p_end], leaving the others unchanged and in order.            *)
(***************************************************************************)
FileHoldsList(file, es) ==
    /\ file.exists =>
          /\ Len(file.rows) = Len(es)
          /\ \A i \in 1..Len(es) :
                /\ file.rows[i][1] = es[i].date
                /\ FromDigits(file.rows[i][2]) = es[i].revenue
                /\ file.rows[i][3] = es[i].departure
                /\ file.rows[i][4] = es[i].ret
    /\ ~file.exists => es = <<>>
    /\ load_entries(file) = es

RECURSIVE OutsidePeriod(_, _, _)
OutsidePeriod(es, start, end) ==
    IF es = <<>> THEN <<>>
    ELSE LET d == ParseDate(Head(es).date)
             rest == OutsidePeriod(Tail(es), start, end)
         IN  IF DateLE(start, d) /\ DateLE(d, end) THEN rest ELSE <<Head(es)>> \o rest

C9_FileMirrorsList ==
    /\ []FileHoldsList(csv, entries)
    /\ [][DoClose =>
             entries' = OutsidePeriod(entries, period_16to15(today).start,
                                      period_16to15(today).end)]_vars

C9_Witness ==
    /\ archive # {}
    /\ entries # <<>>
    /\ csv.exists
    /\ csv.rows = CsvRows(entries)

(***************************************************************************)
(* C10.  As claimed: while the row edit form is open, the stored index     *)
(* row_edit_idx denotes the record whose edit button was clicked, whatever *)
(* deletes or period closes happen in between, so that a save overwrites   *)
(* exactly that record.                                                    *)
(***************************************************************************)
C10_EditIndexDenotesSelected ==
    FormShown => selected = row_edit_idx

====
